---- MODULE Spec2Model ----
(***************************************************************************)
(* ClientHunter: the usePlacesSearch hook (paginated text search, detail   *)
(* fan-out, lead filter) and the lead utilities it uses.                   *)
(*                                                                         *)
(* Conventions of the translation from JavaScript:                         *)
(*  - a JS string that the code inspects character by character (phone     *)
(*    numbers, the query) is a sequence of one-character strings;          *)
(*  - an optional property is a set: {} is undefined, {v} is the value v;  *)
(*  - a rating is kept in tenths (4.0 is 40), so "rating > 4.0" is "> 40"; *)
(*  - every callback runs to completion together with the promise          *)
(*    continuations it releases (microtasks run before the next callback), *)
(*    so one action is one callback plus the code it resumes.              *)
(***************************************************************************)
EXTENDS Integers, Sequences, FiniteSets, TLC

VARIABLES results, loading, error, rawResultsCount, apiLoaded, inv, qin, qout, qdone,
          scoreArgs, scoreRet, phoneArg, phoneRet

vars == <<results, loading, error, rawResultsCount, apiLoaded, inv, qin, qout, qdone,
          scoreArgs, scoreRet, phoneArg, phoneRet>>

hookVars == <<results, loading, error, rawResultsCount, apiLoaded, inv>>

\* one direct call of filterSuitableLeads: argument, return value, returned
leadVars == <<qin, qout, qdone>>

\* one direct call of calculateLeadScore: arguments, return value ("" before)
scoreVars == <<scoreArgs, scoreRet>>

\* one direct call each of isValidSriLankanMobile and formatPhoneForWhatsApp
\* on the same argument: argument, return values ({} before)
phoneVars == <<phoneArg, phoneRet>>

utilVars == <<leadVars, scoreVars, phoneVars>>

(***************************************************************************)
(* Bounds of the model.                                                    *)
(***************************************************************************)
\* total number of raw results the service returns over the pages of one search
MaxResults == 2

\* the service stops reporting a continuation after this many pages
MaxPages == 3

\* number of searchPlaces invocations that can be in flight together
MaxInFlight == 2

\* length of the query strings tried
MaxQueryLen == 1

\* length of the record sequences handed to filterSuitableLeads directly
MaxLeadInput == 3

\* largest review count handed to calculateLeadScore directly
MaxReviewCount == 150

\* total number of raw results of one search, where searches may overlap and
\* where every run of the hook is followed to its end
MaxShortResults == 1

(***************************************************************************)
(* Optional values and JavaScript truthiness.                              *)
(***************************************************************************)
Absent == {}

Some(v) == {v}

Val(o) == CHOOSE v \in o : TRUE

\* truthiness of an optional character string: undefined and '' are falsy
TruthyStr(o) == o # {} /\ Val(o) # <<>>

\* truthiness of an optional string that the code only compares as a whole
TruthyText(o) == o # {} /\ Val(o) # ""

\* a || b on optional strings
OrElse(a, b) == IF TruthyStr(a) THEN a ELSE b

\* n || 0 on an optional number
NumOrZero(o) == IF o = {} THEN 0 ELSE Val(o)

\* o > n on an optional number: undefined > n is false
GreaterThan(o, n) == o # {} /\ Val(o) > n

Digit == {"0", "1", "2", "3", "4", "5", "6", "7", "8", "9"}

Whitespace == {" "}

StartsWith(s, p) == Len(s) >= Len(p) /\ SubSeq(s, 1, Len(p)) = p

AllDigits(s, from, to) == \A k \in from..to : s[k] \in Digit

(***************************************************************************)
(* Lead utilities.                                                         *)
(***************************************************************************)
\* phone.replace(/[\s\-\(\)]/g, '')
StripSeparators(s) == SelectSeq(s, LAMBDA c : c \notin (Whitespace \cup {"-", "(", ")"}))

\* /^07\d{8}$/
MatchesLocal(c) ==
    /\ Len(c) = 10
    /\ c[1] = "0" /\ c[2] = "7"
    /\ AllDigits(c, 3, 10)

\* /^\+947\d{8}$/
MatchesPlusIntl(c) ==
    /\ Len(c) = 12
    /\ c[1] = "+" /\ c[2] = "9" /\ c[3] = "4" /\ c[4] = "7"
    /\ AllDigits(c, 5, 12)

\* /^947\d{8}$/
MatchesIntl(c) ==
    /\ Len(c) = 11
    /\ c[1] = "9" /\ c[2] = "4" /\ c[3] = "7"
    /\ AllDigits(c, 4, 11)

\* /^07\d{1}\s?\d{3}\s?\d{4}$/
MatchesSpaced(c) ==
    \E a \in {0, 1}, b \in {0, 1} :
        /\ Len(c) = 10 + a + b
        /\ c[1] = "0" /\ c[2] = "7" /\ c[3] \in Digit
        /\ a = 1 => c[4] \in Whitespace
        /\ AllDigits(c, 4 + a, 6 + a)
        /\ b = 1 => c[7 + a] \in Whitespace
        /\ AllDigits(c, 7 + a + b, 10 + a + b)

\* phone is an optional string
isValidSriLankanMobile(phone) ==
    IF ~TruthyStr(phone) THEN FALSE
    ELSE LET cleanPhone == StripSeparators(Val(phone))
         IN  \/ MatchesLocal(cleanPhone)
             \/ MatchesPlusIntl(cleanPhone)
             \/ MatchesIntl(cleanPhone)
             \/ MatchesSpaced(cleanPhone)

\* formatPhoneForWhatsApp, were a leading 0 not replaced by 94
formatPhoneKeepingTrunk(phone) ==
    IF ~TruthyStr(phone) THEN <<>>
    ELSE LET kept    == SelectSeq(Val(phone), LAMBDA c : c \in (Digit \cup {"+"}))
             noPlus  == IF kept # <<>> /\ Head(kept) = "+" THEN Tail(kept) ELSE kept
         IN  IF StartsWith(noPlus, <<"9", "4">>) THEN noPlus
             ELSE <<"9", "4">> \o noPlus

\* phone is an optional string; the result is a string
formatPhoneForWhatsApp(phone) ==
    IF ~TruthyStr(phone) THEN <<>>
    ELSE LET kept    == SelectSeq(Val(phone), LAMBDA c : c \in (Digit \cup {"+"}))
             noPlus  == IF kept # <<>> /\ Head(kept) = "+" THEN Tail(kept) ELSE kept
             noTrunk == IF StartsWith(noPlus, <<"0">>)
                        THEN <<"9", "4">> \o Tail(noPlus) ELSE noPlus
         IN  IF StartsWith(noTrunk, <<"9", "4">>) THEN noTrunk
             ELSE <<"9", "4">> \o noTrunk

\* calculateLeadScore, were the thresholds on the count inclusive
calculateLeadScoreInclusive(ratingCount, rating) ==
    IF ~(NumOrZero(ratingCount) < 100) /\ GreaterThan(rating, 40) THEN "Hot"
    ELSE IF ~(NumOrZero(ratingCount) < 50) THEN "Warm"
    ELSE "Cold"

\* ratingCount and rating are optional numbers (rating in tenths)
calculateLeadScore(ratingCount, rating) ==
    IF GreaterThan(ratingCount, 100) /\ GreaterThan(rating, 40) THEN "Hot"
    ELSE IF GreaterThan(ratingCount, 50) THEN "Warm"
    ELSE "Cold"

\* IsSuitable, were the phone number not validated
IsSuitableUnvalidated(place) ==
    /\ ~(NumOrZero(place.userRatingCount) < 10)
    /\ ~TruthyText(place.websiteUri)
    /\ ~(TruthyText(place.businessStatus) /\ place.businessStatus # Some("OPERATIONAL"))

\* the predicate of places.filter(...)
IsSuitable(place) ==
    LET ratingCount == NumOrZero(place.userRatingCount)
        phone == OrElse(place.nationalPhoneNumber,
                        OrElse(place.internationalPhoneNumber, Some(<<>>)))
    IN  /\ ~(ratingCount < 10)
        /\ ~TruthyText(place.websiteUri)
        /\ ~(TruthyText(place.businessStatus) /\ place.businessStatus # Some("OPERATIONAL"))
        /\ isValidSriLankanMobile(phone)

\* the function of .map(...): the place's own fields and the two derived ones
ToLead(place) ==
    [leadScore |-> calculateLeadScore(place.userRatingCount, place.rating),
     formattedWhatsapp |->
         formatPhoneForWhatsApp(OrElse(place.nationalPhoneNumber,
                                       place.internationalPhoneNumber))]
    @@ place

MapSeq(s, F(_)) == [k \in 1..Len(s) |-> F(s[k])]

\* (a, b) => b.userRatingCount - a.userRatingCount
CompareLeads(a, b) == NumOrZero(b.userRatingCount) - NumOrZero(a.userRatingCount)

\* InsertLead, were x to go ahead of the elements it compares equal to
InsertLeadAheadOfEquals(sorted, x) ==
    LET ahead == {k \in 0..Len(sorted) :
                     \A j \in 1..k : CompareLeads(sorted[j], x) < 0}
        at == CHOOSE k \in ahead : \A m \in ahead : m <= k
    IN  SubSeq(sorted, 1, at) \o <<x>> \o SubSeq(sorted, at + 1, Len(sorted))

\* x goes behind every element it does not have to precede (stable insertion)
InsertLead(sorted, x) ==
    LET ahead == {k \in 0..Len(sorted) :
                     \A j \in 1..k : CompareLeads(sorted[j], x) <= 0}
        at == CHOOSE k \in ahead : \A m \in ahead : m <= k
    IN  SubSeq(sorted, 1, at) \o <<x>> \o SubSeq(sorted, at + 1, Len(sorted))

RECURSIVE SortLeads(_)
\* Array.prototype.sort with CompareLeads: a stable sort
SortLeads(s) ==
    IF s = <<>> THEN <<>>
    ELSE InsertLead(SortLeads(SubSeq(s, 1, Len(s) - 1)), s[Len(s)])

filterSuitableLeads(places) ==
    SortLeads(MapSeq(SelectSeq(places, IsSuitable), ToLead))

(***************************************************************************)
(* The external places service, as far as the hook sees it.                *)
(***************************************************************************)
PlaceIds == {1, 2, 3}

\* the review count the service holds for a place
ReviewsOf(p) == IF p = 2 THEN 120 ELSE 60

\* a place without a website and with a mobile number
LeadPlace(p) ==
    [place_id |-> p,
     rating |-> Some(45),
     user_ratings_total |-> Some(ReviewsOf(p)),
     formatted_phone_number |->
         Some(<<"0", "7", "7", " ", "1", "2", "3", " ", "4", "5", "6", "7">>),
     international_phone_number |->
         Some(<<"+", "9", "4", " ", "7", "7", " ", "1", "2", "3", " ", "4", "5", "6", "7">>),
     website |-> Absent,
     business_status |-> Some("OPERATIONAL")]

\* the same place once it has a website
SitePlace(p) == [LeadPlace(p) EXCEPT !.website = Some("http://x.com")]

\* what getDetails can hand to its callback for placeId p: (place, status)
DetailResponses(p) ==
    {[status |-> "OK", place |-> Some(LeadPlace(p))],
     [status |-> "OK", place |-> Some(SitePlace(p))],
     [status |-> "OK", place |-> Absent],
     [status |-> "NOT_FOUND", place |-> Absent]}

PageStatus == {"OK", "ZERO_RESULTS", "OVER_QUERY_LIMIT", "REQUEST_DENIED"}

\* the sequences over S of length at most n
SeqUpTo(S, n) == UNION {[1..m -> S] : m \in 0..n}

\* the pagination argument: null, or an object with hasNextPage
Paginations == {Absent, Some([hasNextPage |-> FALSE]), Some([hasNextPage |-> TRUE])}

\* pagination && pagination.hasNextPage
HasNextPage(pagination) == pagination # {} /\ Val(pagination).hasNextPage

Queries == SeqUpTo({" ", "a"}, MaxQueryLen)

RECURSIVE TrimStart(_)
TrimStart(q) ==
    IF q # <<>> /\ Head(q) \in Whitespace THEN TrimStart(Tail(q)) ELSE q

RECURSIVE TrimEnd(_)
TrimEnd(q) ==
    IF q # <<>> /\ q[Len(q)] \in Whitespace THEN TrimEnd(SubSeq(q, 1, Len(q) - 1)) ELSE q

\* query.trim()
Trim(q) == TrimEnd(TrimStart(q))

(***************************************************************************)
(* The hook's state.                                                       *)
(***************************************************************************)
Slots == 1..MaxInFlight

\* the values of the error state
NoError == [message |-> "none", status |-> "", count |-> 0]

EnterQueryError == [message |-> "Please enter a search query", status |-> "", count |-> 0]

ApiNotLoadedError == [message |-> "Google Maps API not loaded", status |-> "", count |-> 0]

PlacesApiError(status) == [message |-> "Places API Error", status |-> status, count |-> 0]

NoneMatchError(n) == [message |-> "Found businesses, but none match", status |-> "", count |-> n]

\* one searchPlaces invocation: where it stands, what its closures and locals
\* hold (allResults, detailed, validResults) and what it has exchanged with the service and the
\* timer so far: the results of the pages answered OK, the status of the last
\* page, the numbers of page requests and of timers set, whether the service
\* has answered the k-th detail request and the place it delivered with
\* status OK if it did, whether some detail answer overtook the answer to
\* an earlier request, how often resolve or reject of the promise of
\* fetchAllPages was called, and the slots whose invocation was in flight when
\* this one started and has not been replaced since
IdleSlot ==
    [pc |-> "idle", allResults |-> <<>>, detailed |-> <<>>, validResults |-> <<>>,
     pages |-> <<>>, lastStatus |-> "", pageReqs |-> 0, delays |-> 0,
     answered |-> <<>>, overtaken |-> FALSE, settles |-> 0, startedDuring |-> {}]

InFlight(s) == inv[s].pc \in {"paging", "delay", "details"}

Idle == \A s \in Slots : ~InFlight(s)

\* a promise of getPlaceDetails: pending, or resolved with null or a record
Pending == [settled |-> FALSE, value |-> {}]

Resolved(value) == [settled |-> TRUE, value |-> value]

\* the service's record of one detail request
Unanswered == [done |-> FALSE, delivered |-> {}]

Answered(place) == [done |-> TRUE, delivered |-> place]

Init ==
    /\ results = <<>>
    /\ loading = FALSE
    /\ error = NoError
    /\ rawResultsCount = 0
    /\ apiLoaded = FALSE
    /\ inv = [s \in Slots |-> IdleSlot]
    /\ qin = <<>>
    /\ qout = <<>>
    /\ qdone = FALSE
    /\ scoreArgs = [ratingCount |-> Absent, rating |-> Absent]
    /\ scoreRet = ""
    /\ phoneArg = Absent
    /\ phoneRet = {}

(***************************************************************************)
(* usePlacesSearch.                                                        *)
(***************************************************************************)
\* the object getPlaceDetails resolves with for a place of the service
MapPlace(place) ==
    [id |-> place.place_id,
     placeId |-> place.place_id,
     rating |-> place.rating,
     userRatingCount |-> place.user_ratings_total,
     nationalPhoneNumber |-> place.formatted_phone_number,
     internationalPhoneNumber |-> place.international_phone_number,
     websiteUri |-> place.website,
     businessStatus |-> place.business_status]

\* the value the callback of getDetails resolves its promise with: null is {}
DetailValue(place, status) ==
    IF status = "OK" /\ place # {} THEN Some(MapPlace(Val(place))) ELSE {}

\* SettleAt, were the values collected in the order of arrival
SettleAtNextFree(detailed, k, value) ==
    LET free == CHOOSE j \in 1..Len(detailed) :
                    /\ ~detailed[j].settled
                    /\ \A i \in 1..(j - 1) : detailed[i].settled
    IN  [detailed EXCEPT ![free] = Resolved(value)]

\* Promise.all keeps the value of the k-th promise at index k
SettleAt(detailed, k, value) == [detailed EXCEPT ![k] = Resolved(value)]

\* ValidResults, were one failed lookup to void the batch
ValidResultsAllOrNothing(detailedResults) ==
    IF \E k \in 1..Len(detailedResults) : detailedResults[k] = {}
    THEN <<>>
    ELSE MapSeq(detailedResults, Val)

\* detailedResults.filter(place => place !== null)
ValidResults(detailedResults) ==
    MapSeq(SelectSeq(detailedResults, LAMBDA v : v # {}), Val)

\* the lowest slot that holds no invocation in flight
FreeSlot(s) == ~InFlight(s) /\ \A t \in Slots : t < s => InFlight(t)

\* Annotate, were the note to count the accumulated results
AnnotateCountingRaw(allResults, validResults, filteredLeads, current) ==
    IF Len(filteredLeads) = 0 /\ Len(validResults) > 0
    THEN NoneMatchError(Len(allResults))
    ELSE current

\* the error state after the check for leads: the note that none of the
\* businesses found matches, or the error state as it was
Annotate(allResults, validResults, filteredLeads, current) ==
    IF Len(filteredLeads) = 0 /\ Len(validResults) > 0
    THEN NoneMatchError(Len(validResults))
    ELSE current

\* the rest of the try block once Promise.all has resolved, and the finally
Succeed(s, slot, detailedResults) ==
    LET validResults == ValidResults(detailedResults)
        filteredLeads == filterSuitableLeads(validResults)
    IN  /\ rawResultsCount' = Len(validResults)
        /\ results' = filteredLeads
        /\ error' = Annotate(slot.allResults, validResults, filteredLeads, error)
        /\ loading' = FALSE
        /\ inv' = [inv EXCEPT ![s] = [slot EXCEPT !.pc = "done",
                                                  !.validResults = validResults]]

\* CatchFinally, were there no finally block
CatchOnly(err) ==
    /\ error' = err
    /\ loading' = TRUE

\* the catch block and the finally
CatchFinally(err) ==
    /\ error' = err
    /\ loading' = FALSE

\* the promise of fetchAllPages was rejected with err
Fail(s, slot, err) ==
    /\ CatchFinally(err)
    /\ inv' = [inv EXCEPT ![s] = [slot EXCEPT !.pc = "done"]]
    /\ UNCHANGED <<results, rawResultsCount>>

\* FanOut, were Promise.all of no promise at all never to resolve
FanOutAwaitingAnswers(s, slot) ==
    /\ inv' = [inv EXCEPT ![s] =
                  [slot EXCEPT !.pc = "details",
                               !.detailed = [k \in 1..Len(slot.allResults) |-> Pending],
                               !.answered = [k \in 1..Len(slot.allResults) |-> Unanswered]]]
    /\ UNCHANGED <<results, loading, error, rawResultsCount>>

\* fetchAllPages has resolved with slot.allResults: one getDetails per result
FanOut(s, slot) ==
    IF slot.allResults = <<>>
    THEN Succeed(s, slot, <<>>)
    ELSE /\ inv' = [inv EXCEPT ![s] =
                       [slot EXCEPT !.pc = "details",
                                    !.detailed = [k \in 1..Len(slot.allResults) |-> Pending],
                                    !.answered = [k \in 1..Len(slot.allResults) |-> Unanswered]]]
         /\ UNCHANGED <<results, loading, error, rawResultsCount>>

\* IsBlank, were the query not trimmed
IsBlankUntrimmed(query) == query = <<>>

\* !query.trim()
IsBlank(query) == Trim(query) = <<>>

\* searchPlaces(query), up to its first await
searchPlaces(query) ==
    /\ IF IsBlank(query)
       THEN /\ error' = EnterQueryError
            /\ UNCHANGED <<results, loading, rawResultsCount, inv>>
       ELSE IF ~apiLoaded
       THEN /\ CatchFinally(ApiNotLoadedError)
            /\ results' = <<>>
            /\ UNCHANGED <<rawResultsCount, inv>>
       ELSE \E s \in Slots :
            /\ FreeSlot(s)
            /\ loading' = TRUE
            /\ error' = NoError
            /\ results' = <<>>
            /\ inv' = [t \in Slots |->
                          IF t = s
                          THEN [IdleSlot EXCEPT !.pc = "paging", !.pageReqs = 1,
                                                !.startedDuring = {u \in Slots : InFlight(u)}]
                          ELSE [inv[t] EXCEPT !.startedDuring = @ \ {s}]]
            /\ UNCHANGED rawResultsCount
    /\ UNCHANGED <<apiLoaded, utilVars>>

\* Accumulate, were the page to replace what was accumulated
AccumulateOverwriting(allResults, pageResults) == pageResults

\* allResults.push(...results)
Accumulate(allResults, pageResults) == allResults \o pageResults

\* PageOutcome, were every status other than OK to resolve the promise
PageOutcomeNeverRejecting(status, pagination) ==
    IF status = "OK" /\ HasNextPage(pagination) THEN "next" ELSE "resolve"

\* PageOutcome, were ZERO_RESULTS not told apart from the error statuses
PageOutcomeZeroRejecting(status, pagination) ==
    IF status = "OK"
    THEN IF HasNextPage(pagination) THEN "next" ELSE "resolve"
    ELSE "reject"

\* the branch handleResults takes: it sets the timer for the next page,
\* resolves the promise of fetchAllPages, or rejects it
PageOutcome(status, pagination) ==
    IF status = "OK"
    THEN IF HasNextPage(pagination) THEN "next" ELSE "resolve"
    ELSE IF status = "ZERO_RESULTS" THEN "resolve"
    ELSE "reject"

\* the callback of textSearch and of nextPage, with what it resumes
handleResults(s, pageResults, status, pagination) ==
    /\ inv[s].pc = "paging"
    /\ LET outcome == PageOutcome(status, pagination)
           slot == IF status = "OK"
                   THEN [inv[s] EXCEPT !.lastStatus = status,
                                       !.allResults = Accumulate(@, pageResults),
                                       !.pages = Append(@, pageResults)]
                   ELSE [inv[s] EXCEPT !.lastStatus = status]
       IN  IF outcome = "next"
           THEN /\ inv' = [inv EXCEPT ![s] = [slot EXCEPT !.pc = "delay", !.delays = @ + 1]]
                /\ UNCHANGED <<results, loading, error, rawResultsCount>>
           ELSE IF outcome = "resolve"
           THEN FanOut(s, [slot EXCEPT !.settles = @ + 1])
           ELSE Fail(s, [slot EXCEPT !.settles = @ + 1], PlacesApiError(status))
    /\ UNCHANGED <<apiLoaded, utilVars>>

\* the callback of setTimeout: pagination.nextPage()
nextPage(s) ==
    /\ inv[s].pc = "delay"
    /\ inv' = [inv EXCEPT ![s].pc = "paging", ![s].pageReqs = @ + 1]
    /\ UNCHANGED <<results, loading, error, rawResultsCount, apiLoaded, utilVars>>

\* the callback of getDetails for the k-th result, with what it resumes
detailsCallback(s, k, place, status) ==
    /\ inv[s].pc = "details"
    /\ k \in 1..Len(inv[s].detailed)
    /\ ~inv[s].answered[k].done
    /\ LET detailed == SettleAt(inv[s].detailed, k, DetailValue(place, status))
           slot == [inv[s] EXCEPT
                       !.detailed = detailed,
                       !.answered[k] = Answered(IF status = "OK" THEN place ELSE Absent),
                       !.overtaken = @ \/ \E j \in 1..(k - 1) : ~inv[s].detailed[j].settled]
       IN  IF \A j \in 1..Len(detailed) : detailed[j].settled
           THEN Succeed(s, slot, [j \in 1..Len(detailed) |-> detailed[j].value])
           ELSE /\ inv' = [inv EXCEPT ![s] = slot]
                /\ UNCHANGED <<results, loading, error, rawResultsCount>>
    /\ UNCHANGED <<apiLoaded, utilVars>>

clearResults ==
    /\ results' = <<>>
    /\ error' = NoError
    /\ rawResultsCount' = 0
    /\ UNCHANGED <<loading, apiLoaded, inv, utilVars>>

\* the script of the maps API finishes loading: window.google.maps.places exists
ApiLoads ==
    /\ ~apiLoaded
    /\ apiLoaded' = TRUE
    /\ UNCHANGED <<results, loading, error, rawResultsCount, inv, utilVars>>

(***************************************************************************)
(* The service's side of one exchange.                                     *)
(***************************************************************************)
\* the number of pages the service has answered in slot s
PagesAnswered(s) ==
    Len(inv[s].pages) + (IF inv[s].lastStatus \in {"", "OK"} THEN 0 ELSE 1)

\* the service answers the outstanding page request of slot s
\* (the status OK comes with at least one result, every other status with
\* no result and no pagination object)
PageAnswer(s) ==
    \/ \E pagination \in Paginations :
       \E pageResults \in SeqUpTo(PlaceIds, MaxResults - Len(inv[s].allResults)) \ {<<>>} :
           /\ HasNextPage(pagination) => PagesAnswered(s) + 1 < MaxPages
           /\ handleResults(s, pageResults, "OK", pagination)
    \/ \E status \in PageStatus \ {"OK"} :
           handleResults(s, <<>>, status, Absent)

\* the service answers one outstanding detail request of slot s
DetailAnswer(s) ==
    \E k \in 1..Len(inv[s].detailed) :
    \E r \in DetailResponses(inv[s].allResults[k]) :
        detailsCallback(s, k, r.place, r.status)

\* one search at a time: searchPlaces is called only when none is in flight
Next ==
    \/ \E query \in Queries : Idle /\ searchPlaces(query)
    \/ \E s \in Slots : PageAnswer(s)
    \/ \E s \in Slots : nextPage(s)
    \/ \E s \in Slots : DetailAnswer(s)
    \/ clearResults
    \/ ApiLoads

Spec == Init /\ [][Next]_vars

(***************************************************************************)
(* Properties of pagination.                                               *)
(***************************************************************************)
RECURSIVE Flatten(_)
Flatten(pages) ==
    IF pages = <<>> THEN <<>> ELSE Head(pages) \o Flatten(Tail(pages))

RECURSIVE SumOfLengths(_)
SumOfLengths(pages) ==
    IF pages = <<>> THEN 0 ELSE Len(Head(pages)) + SumOfLengths(Tail(pages))

\* the timers of slot s that have fired
DelaysElapsed(s) == inv[s].delays - (IF inv[s].pc = "delay" THEN 1 ELSE 0)

\* the pagination of slot s has ended and every page reported OK
PagedAllOk(s) == inv[s].pc \in {"details", "done"} /\ inv[s].lastStatus = "OK"

\* C1: when all k pages of a search reported OK and the k-th was the first
\* without a continuation, allResults is the concatenation of the k pages in
\* page order (its length the sum of the page sizes) and exactly k-1 delays
\* were set; at any time at most one page request is outstanding, and the
\* request for page i+1 has gone out only once page i was answered and the
\* i-th delay elapsed.
C1_PagesConcatenatedAndPaced ==
    \A s \in Slots :
        /\ inv[s].pageReqs - PagesAnswered(s) = (IF inv[s].pc = "paging" THEN 1 ELSE 0)
        /\ inv[s].pc # "idle" => inv[s].pageReqs = DelaysElapsed(s) + 1
        /\ inv[s].pc = "delay" => PagesAnswered(s) = inv[s].delays
        /\ PagedAllOk(s) =>
               /\ inv[s].allResults = Flatten(inv[s].pages)
               /\ Len(inv[s].allResults) = SumOfLengths(inv[s].pages)
               /\ inv[s].delays = Len(inv[s].pages) - 1
               /\ inv[s].pageReqs = Len(inv[s].pages)

\* two pages, both with results, the second without continuation
C1_Witness ==
    \E s \in Slots :
        /\ PagedAllOk(s)
        /\ Len(inv[s].pages) = 2
        /\ inv[s].delays = 1
        /\ inv[s].allResults = inv[s].pages[1] \o inv[s].pages[2]
        /\ inv[s].pages[1] # inv[s].pages[2]

ErrorStatus(status) == status \notin {"", "OK", "ZERO_RESULTS"}

\* C2: a page with a status other than OK and ZERO_RESULTS, the first or a
\* later one, ends the search with the error of that status: no detail request
\* is ever issued for it, results is empty, loading is false, and nothing of
\* the pages accumulated so far reaches the hook's state.
C2_ErrorPageFailsSearch ==
    [][\A s \in Slots :
          /\ (inv[s].pc = "paging" /\ ErrorStatus(inv'[s].lastStatus)) =>
                 /\ inv'[s].pc = "done"
                 /\ error' = PlacesApiError(inv'[s].lastStatus)
                 /\ results' = <<>>
                 /\ loading' = FALSE
                 /\ rawResultsCount' = rawResultsCount
          /\ ErrorStatus(inv'[s].lastStatus) =>
                 /\ inv'[s].pc = "done"
                 /\ inv'[s].detailed = <<>>
                 /\ inv'[s].pageReqs = inv[s].pageReqs]_vars

\* the second page failed after a first page with results
C2_Witness ==
    \E s \in Slots :
        /\ inv[s].pc = "done"
        /\ inv[s].lastStatus = "REQUEST_DENIED"
        /\ Len(inv[s].pages) = 1
        /\ inv[s].allResults # <<>>
        /\ error = PlacesApiError("REQUEST_DENIED")
        /\ results = <<>>
        /\ ~loading

\* C3: a page with the status ZERO_RESULTS, the first or a later one, ends the
\* pagination without an error: no further page is requested, and the search
\* goes on to the detail lookups with exactly the results of the earlier pages
\* (with none, it completes at once with no lead and no error).
C3_ZeroResultsEndsPagination ==
    [][\A s \in Slots :
          /\ (inv[s].pc = "paging" /\ inv'[s].lastStatus = "ZERO_RESULTS") =>
                 /\ inv'[s].allResults = inv[s].allResults
                 /\ inv'[s].allResults = Flatten(inv[s].pages)
                 /\ error' = NoError
                 /\ IF inv[s].allResults # <<>>
                    THEN /\ inv'[s].pc = "details"
                         /\ Len(inv'[s].detailed) = Len(inv[s].allResults)
                         /\ loading'
                    ELSE /\ inv'[s].pc = "done"
                         /\ results' = <<>>
                         /\ rawResultsCount' = 0
                         /\ ~loading'
          /\ inv'[s].lastStatus = "ZERO_RESULTS" =>
                 /\ inv'[s].pc \in {"details", "done"}
                 /\ inv'[s].pageReqs = inv[s].pageReqs
                 /\ inv'[s].delays = inv[s].delays]_vars

\* the second page reported ZERO_RESULTS after a first page with results
C3_Witness ==
    \E s \in Slots :
        /\ inv[s].pc = "details"
        /\ inv[s].lastStatus = "ZERO_RESULTS"
        /\ Len(inv[s].pages) = 1
        /\ inv[s].allResults = inv[s].pages[1]
        /\ Len(inv[s].detailed) = Len(inv[s].allResults)
        /\ error = NoError

(***************************************************************************)
(* Properties of the detail lookups and of the completion of a search.     *)
(***************************************************************************)
RECURSIVE Keep(_, _)
\* the elements of seq at the positions where mask is true
Keep(seq, mask) ==
    IF seq = <<>> THEN <<>>
    ELSE (IF Head(mask) THEN <<Head(seq)>> ELSE <<>>) \o Keep(Tail(seq), Tail(mask))

\* where the service delivered a place, by position of the request
Delivered(slot) == [k \in 1..Len(slot.answered) |-> slot.answered[k].delivered # {}]

\* the records of the places the service delivered, in the order of the requests
DeliveredRecords(slot) ==
    MapSeq(Keep(slot.answered, Delivered(slot)), LAMBDA a : MapPlace(Val(a.delivered)))

\* the step in which the last detail answer of slot s arrives
LastDetailArrives(s) == inv[s].pc = "details" /\ inv'[s].pc = "done"

\* the step in which a detail answer of slot s arrives that is not the last
DetailArrives(s) ==
    inv[s].pc = "details" /\ inv'[s].pc = "details" /\ inv'[s].answered # inv[s].answered

\* C4: a detail lookup answered with another status than OK, or with no
\* place, yields no data for its entry only: the search does not fail, it
\* completes only when every lookup of the batch is answered, and validResults
\* is then exactly the accumulated results whose lookup delivered a place, in
\* the order of accumulation.
C4_FailedLookupDropsOneEntry ==
    [][\A s \in Slots :
          /\ LastDetailArrives(s) =>
                 /\ \A k \in 1..Len(inv'[s].answered) : inv'[s].answered[k].done
                 /\ inv'[s].validResults = DeliveredRecords(inv'[s])
                 /\ MapSeq(inv'[s].validResults, LAMBDA r : r.id)
                        = Keep(inv[s].allResults, Delivered(inv'[s]))
                 /\ rawResultsCount' = Len(inv'[s].validResults)
                 /\ error' \in {NoError, NoneMatchError(rawResultsCount')}
          /\ DetailArrives(s) =>
                 /\ \E k \in 1..Len(inv'[s].answered) : ~inv'[s].answered[k].done
                 /\ UNCHANGED <<results, loading, error, rawResultsCount>>]_vars

\* the first of two lookups failed, the second delivered its place
C4_Witness ==
    \E s \in Slots :
        /\ inv[s].pc = "done"
        /\ Len(inv[s].allResults) = 2
        /\ inv[s].allResults[1] # inv[s].allResults[2]
        /\ inv[s].answered[1].delivered = {}
        /\ inv[s].answered[2].delivered # {}
        /\ Len(inv[s].validResults) = 1
        /\ inv[s].validResults[1].id = inv[s].allResults[2]
        /\ rawResultsCount = 1
        /\ error = NoError

\* C5: the leads a search returns are a function of its pages and of what the
\* service answered to each detail request, whatever the order in which the
\* answers arrived: every answer is kept at the position of the result it was
\* requested for, and the leads are filterSuitableLeads of the delivered
\* records taken in the order of the requests.
C5_ArrivalOrderIrrelevant ==
    [][\A s \in Slots :
          LastDetailArrives(s) =>
              /\ \A k \in 1..Len(inv'[s].detailed) :
                     /\ inv'[s].detailed[k].settled
                     /\ inv'[s].detailed[k].value # {} =>
                            Val(inv'[s].detailed[k].value).id = inv[s].allResults[k]
              /\ results' = filterSuitableLeads(DeliveredRecords(inv'[s]))]_vars

\* two leads with the same review count, the answer for the second having
\* arrived first: they are returned in the order of the raw results
C5_Witness ==
    \E s \in Slots :
        /\ inv[s].pc = "done"
        /\ inv[s].overtaken
        /\ Len(results) = 2
        /\ results[1].id # results[2].id
        /\ results[1].userRatingCount = results[2].userRatingCount
        /\ results[1].id = inv[s].allResults[1]
        /\ results[2].id = inv[s].allResults[2]

HasDuplicateIds(records) ==
    \E j, k \in 1..Len(records) : j # k /\ records[j].id = records[k].id

\* C6: validResults never holds two records with the same place id (and so
\* neither does the list of leads), also when the service returns a place
\* twice.
C6_NoDuplicatePlaceIds ==
    \A s \in Slots :
        /\ ~HasDuplicateIds(inv[s].validResults)
        /\ inv[s].pc = "done" => ~HasDuplicateIds(results)

\* C7: searchPlaces with an empty or whitespace-only query sets the error
\* 'Please enter a search query' and nothing else: no request is issued,
\* loading does not become true, results and rawResultsCount stay as they were.
C7_BlankQueryRejected ==
    [][\A query \in Queries :
          (Trim(query) = <<>> /\ Idle /\ searchPlaces(query)) =>
              /\ error' = EnterQueryError
              /\ ~loading /\ ~loading'
              /\ UNCHANGED <<results, rawResultsCount, inv>>]_vars

\* the error is set while the leads of the previous search are still held
C7_Witness ==
    /\ error = EnterQueryError
    /\ results # <<>>
    /\ rawResultsCount > 0
    /\ ~loading
    /\ Idle

\* C8: searchPlaces with a non-blank query while the maps API is not loaded
\* ends with the error 'Google Maps API not loaded', an empty result list and
\* loading false, and issues no request and sets no timer.
C8_ApiNotLoaded ==
    [][\A query \in Queries :
          (Trim(query) # <<>> /\ ~apiLoaded /\ Idle /\ searchPlaces(query)) =>
              /\ error' = ApiNotLoadedError
              /\ results' = <<>>
              /\ ~loading'
              /\ UNCHANGED <<inv, rawResultsCount>>]_vars

\* the call has returned with the error, before the maps API was loaded
C8_Witness ==
    /\ ~apiLoaded
    /\ error = ApiNotLoadedError
    /\ results = <<>>
    /\ ~loading
    /\ \A s \in Slots : inv[s] = IdleSlot

\* the step in which the search of slot s completes without a page error
Completes(s) ==
    /\ inv[s].pc \in {"paging", "details"}
    /\ inv'[s].pc = "done"
    /\ ~ErrorStatus(inv'[s].lastStatus)

\* C9: a search that completes with N > 0 valid records none of which is a
\* suitable lead still succeeds, with an empty list of leads and the note
\* naming N, the number of valid records (not of accumulated results); with no
\* valid record, or with at least one lead, it reports no note and no error.
C9_NoneMatchAnnotation ==
    [][\A s \in Slots :
          Completes(s) =>
              LET N == Len(inv'[s].validResults) IN
              /\ results' = filterSuitableLeads(inv'[s].validResults)
              /\ rawResultsCount' = N
              /\ ~loading'
              /\ error' = IF N > 0 /\ results' = <<>> THEN NoneMatchError(N) ELSE NoError]_vars

\* two results accumulated, one valid record, no lead: the note names 1
C9_Witness ==
    \E s \in Slots :
        /\ inv[s].pc = "done"
        /\ Len(inv[s].allResults) = 2
        /\ Len(inv[s].validResults) = 1
        /\ results = <<>>
        /\ error = NoneMatchError(1)
        /\ rawResultsCount = 1

(***************************************************************************)
(* filterSuitableLeads on its own: qin is the argument of one call, qout    *)
(* its result once qdone.                                                  *)
(***************************************************************************)
MobileLocal == <<"0", "7", "7", " ", "1", "2", "3", " ", "4", "5", "6", "7">>

MobileIntl == <<"+", "9", "4", " ", "7", "1", " ", "2", "3", "4", " ", "5", "6", "7", "8">>

Landline == <<"0", "1", "1", " ", "2", "3", "4", " ", "5", "6", "7", "8">>

LandlineIntl == <<"+", "9", "4", " ", "1", "1", " ", "2", "3", "4", " ", "5", "6", "7", "8">>

\* every combination of the values the filter tells apart, for one place
WideRecords ==
    [id : {1}, placeId : {1},
     rating : {Absent, Some(40), Some(45)},
     userRatingCount : {Absent, Some(9), Some(10), Some(120)},
     nationalPhoneNumber : {Absent, Some(<<>>), Some(MobileLocal), Some(Landline)},
     internationalPhoneNumber : {Absent, Some(MobileIntl), Some(LandlineIntl)},
     websiteUri : {Absent, Some(""), Some("http://x.com")},
     businessStatus : {Absent, Some("OPERATIONAL"), Some("CLOSED_TEMPORARILY")}]

\* a few records of several places, for the sequences of more than one record
NarrowRecords ==
    {r \in [id : PlaceIds, placeId : PlaceIds,
            rating : {Some(45)},
            userRatingCount : {Some(9), Some(60), Some(120)},
            nationalPhoneNumber : {Some(MobileLocal)},
            internationalPhoneNumber : {Absent},
            websiteUri : {Absent},
            businessStatus : {Some("OPERATIONAL")}] : r.id = r.placeId}
    \cup {MapPlace(SitePlace(1))}

LeadInputs ==
    {<<>>} \cup {<<r>> : r \in WideRecords}
           \cup UNION {[1..m -> NarrowRecords] : m \in 2..MaxLeadInput}

QInit ==
    /\ results = <<>>
    /\ loading = FALSE
    /\ error = NoError
    /\ rawResultsCount = 0
    /\ apiLoaded = FALSE
    /\ inv = [s \in Slots |-> IdleSlot]
    /\ qin \in LeadInputs
    /\ qout = <<>>
    /\ qdone = FALSE
    /\ scoreArgs = [ratingCount |-> Absent, rating |-> Absent]
    /\ scoreRet = ""
    /\ phoneArg = Absent
    /\ phoneRet = {}

\* one call filterSuitableLeads(qin)
Qualify ==
    /\ ~qdone
    /\ qout' = filterSuitableLeads(qin)
    /\ qdone' = TRUE
    /\ UNCHANGED <<qin, hookVars, scoreVars, phoneVars>>

QNext == Qualify

QSpec == QInit /\ [][QNext]_vars

\* a lead without the fields filterSuitableLeads adds
Underived(lead) ==
    [f \in DOMAIN lead \ {"leadScore", "formattedWhatsapp"} |-> lead[f]]

\* C10: every lead filterSuitableLeads returns has userRatingCount >= 10, no
\* or an empty websiteUri, no businessStatus or "OPERATIONAL", and a non-empty
\* formattedWhatsapp that is formatPhoneForWhatsApp of one of the record's
\* phone strings that isValidSriLankanMobile accepts; and it is a record of
\* the input.
C10_LeadsAreSuitable ==
    qdone =>
        \A k \in 1..Len(qout) :
            LET lead == qout[k] IN
            /\ lead.userRatingCount # {} /\ Val(lead.userRatingCount) >= 10
            /\ lead.websiteUri \in {Absent, Some("")}
            /\ lead.businessStatus \in {Absent, Some("OPERATIONAL")}
            /\ lead.formattedWhatsapp # <<>>
            /\ \E phone \in {lead.nationalPhoneNumber, lead.internationalPhoneNumber} :
                   /\ isValidSriLankanMobile(phone)
                   /\ lead.formattedWhatsapp = formatPhoneForWhatsApp(phone)
            /\ \E j \in 1..Len(qin) : qin[j] = Underived(lead)

\* a lead whose number comes from the international phone string
C10_Witness ==
    /\ qdone
    /\ Len(qout) = 1
    /\ qout[1].nationalPhoneNumber \in {Absent, Some(<<>>)}
    /\ qout[1].websiteUri = Some("")
    /\ qout[1].businessStatus = Absent
    /\ qout[1].userRatingCount = Some(10)
    /\ qout[1].formattedWhatsapp = <<"9", "4", "7", "1", "2", "3", "4", "5", "6", "7", "8">>

\* the three conditions of the filter that do not look at the phone strings
PassesBeforePhone(place) ==
    /\ place.userRatingCount # {} /\ Val(place.userRatingCount) >= 10
    /\ place.websiteUri \in {Absent, Some("")}
    /\ place.businessStatus \in {Absent, Some("OPERATIONAL")}

\* C11: filterSuitableLeads keeps every record that has userRatingCount >= 10,
\* no website and no status other than OPERATIONAL, and of which at least one
\* of nationalPhoneNumber and internationalPhoneNumber is accepted by
\* isValidSriLankanMobile; the lead's formattedWhatsapp comes from a phone
\* string that is accepted (from the international one when the national one
\* is a landline).
C11_AnyValidPhoneKeeps ==
    qdone =>
        \A j \in 1..Len(qin) :
            LET place == qin[j]
                phones == {place.nationalPhoneNumber, place.internationalPhoneNumber}
            IN  (PassesBeforePhone(place) /\ \E phone \in phones : isValidSriLankanMobile(phone))
                => \E k \in 1..Len(qout) :
                       /\ Underived(qout[k]) = place
                       /\ \E phone \in phones :
                              /\ isValidSriLankanMobile(phone)
                              /\ qout[k].formattedWhatsapp = formatPhoneForWhatsApp(phone)

\* the records of qin that pass the filter, in the order of qin
Survivors == SelectSeq(qin, IsSuitable)

ReviewCount(lead) == NumOrZero(lead.userRatingCount)

\* C12: the leads filterSuitableLeads returns are the records that pass the
\* filter, each exactly once, in descending order of userRatingCount, and
\* records with equal userRatingCount keep the order they had in the input.
C12_SortedStablePermutation ==
    qdone =>
        LET n == Len(Survivors) IN
        /\ Len(qout) = n
        /\ \A k \in 1..(n - 1) : ReviewCount(qout[k]) >= ReviewCount(qout[k + 1])
        /\ \E p \in [1..n -> 1..n] :
               /\ \A j, k \in 1..n : j # k => p[j] # p[k]
               /\ \A k \in 1..n : Underived(qout[k]) = Survivors[p[k]]
               /\ \A j, k \in 1..n :
                      (j < k /\ ReviewCount(qout[j]) = ReviewCount(qout[k])) => p[j] < p[k]

\* three leads of three places: the second of the input moves to the front,
\* the first and the third have equal counts and keep their order
C12_Witness ==
    /\ qdone
    /\ Len(qin) = 3 /\ Len(qout) = 3
    /\ [k \in 1..3 |-> qin[k].id] = <<1, 2, 3>>
    /\ [k \in 1..3 |-> qout[k].id] = <<2, 1, 3>>
    /\ [k \in 1..3 |-> ReviewCount(qout[k])] = <<120, 60, 60>>

(***************************************************************************)
(* calculateLeadScore on its own.                                          *)
(***************************************************************************)
\* ratings run from 0.0 to 5.0 in tenths; both arguments may be undefined
ScoreInputs ==
    [ratingCount : {Absent} \cup {Some(n) : n \in 0..MaxReviewCount},
     rating : {Absent} \cup {Some(r) : r \in 0..50}]

SInit ==
    /\ results = <<>>
    /\ loading = FALSE
    /\ error = NoError
    /\ rawResultsCount = 0
    /\ apiLoaded = FALSE
    /\ inv = [s \in Slots |-> IdleSlot]
    /\ qin = <<>>
    /\ qout = <<>>
    /\ qdone = FALSE
    /\ scoreArgs \in ScoreInputs
    /\ scoreRet = ""
    /\ phoneArg = Absent
    /\ phoneRet = {}

\* one call calculateLeadScore(scoreArgs.ratingCount, scoreArgs.rating)
Score ==
    /\ scoreRet = ""
    /\ scoreRet' = calculateLeadScore(scoreArgs.ratingCount, scoreArgs.rating)
    /\ UNCHANGED <<scoreArgs, hookVars, leadVars, phoneVars>>

SNext == Score

SSpec == SInit /\ [][SNext]_vars

\* C13: calculateLeadScore returns one of Hot, Warm and Cold for every pair of
\* arguments, undefined ones included: Hot exactly when the count is above
\* 100 and the rating above 4.0, Warm exactly when it is not Hot and the
\* count is above 50, Cold otherwise; an undefined count counts as 0 and an
\* undefined rating is never Hot.  So (150, 4.5) is Hot, (60, 3.0) Warm,
\* (5, 5.0) Cold and (undefined, undefined) Cold, and the counts 100 and 50
\* and the rating 4.0 are on the lower side of their thresholds.
C13_ScoreTotalFirstMatch ==
    scoreRet # "" =>
        LET count == IF scoreArgs.ratingCount = {} THEN 0 ELSE Val(scoreArgs.ratingCount)
            rated == scoreArgs.rating # {}
            hot == count > 100 /\ rated /\ Val(scoreArgs.rating) > 40
        IN  /\ scoreRet \in {"Hot", "Warm", "Cold"}
            /\ scoreRet = "Hot" <=> hot
            /\ scoreRet = "Warm" <=> (~hot /\ count > 50)
            /\ scoreRet = "Cold" <=> (~hot /\ ~(count > 50))
            /\ scoreArgs = [ratingCount |-> Some(150), rating |-> Some(45)] => scoreRet = "Hot"
            /\ scoreArgs = [ratingCount |-> Some(60), rating |-> Some(30)] => scoreRet = "Warm"
            /\ scoreArgs = [ratingCount |-> Some(5), rating |-> Some(50)] => scoreRet = "Cold"
            /\ scoreArgs = [ratingCount |-> Absent, rating |-> Absent] => scoreRet = "Cold"
            /\ scoreArgs.ratingCount = Some(100) => scoreRet = "Warm"
            /\ scoreArgs.ratingCount = Some(50) => scoreRet = "Cold"
            /\ scoreArgs.rating = Some(40) => scoreRet # "Hot"
            /\ ~rated => scoreRet # "Hot"

\* a count above 100 with the rating exactly 4.0: not Hot, and so Warm
C13_Witness ==
    /\ scoreArgs = [ratingCount |-> Some(101), rating |-> Some(40)]
    /\ scoreRet = "Warm"

(***************************************************************************)
(* isValidSriLankanMobile and formatPhoneForWhatsApp on their own.         *)
(***************************************************************************)
\* what stands before the digit that tells a mobile number from a landline
PhonePrefixes == {<<"0">>, <<"+", "9", "4">>, <<"9", "4">>, <<>>, <<"0", "0", "9", "4">>}

\* the digits behind it: eight for a subscriber, or one too few or too many
PhoneBodies ==
    {<<"7", "1", "2", "3", "4", "5", "6", "7">>,
     <<"1", "2", "3", "4", "5", "6", "7", "8">>,
     <<"0", "0", "0", "0", "0", "0", "0", "0">>,
     <<"9", "4", "7", "1", "2", "3", "4", "5">>,
     <<"1", "2", "3", "4", "5", "6", "7">>,
     <<"1", "2", "3", "4", "5", "6", "7", "8", "9">>}

PhoneStyles == {"plain", "spaced", "hyphens", "parens", "dotted"}

\* prefix and national number written with the separators of a style
Decorate(prefix, number, style) ==
    LET n == Len(number) IN
    IF style = "spaced"
    THEN prefix \o <<" ">> \o SubSeq(number, 1, 2) \o <<" ">> \o SubSeq(number, 3, 5)
                \o <<" ">> \o SubSeq(number, 6, n)
    ELSE IF style = "hyphens"
    THEN prefix \o SubSeq(number, 1, 2) \o <<"-">> \o SubSeq(number, 3, 5)
                \o <<"-">> \o SubSeq(number, 6, n)
    ELSE IF style = "parens"
    THEN <<"(">> \o prefix \o <<")", " ">> \o SubSeq(number, 1, 2) \o <<" ">> \o SubSeq(number, 3, n)
    ELSE IF style = "dotted"
    THEN prefix \o SubSeq(number, 1, 2) \o <<".">> \o SubSeq(number, 3, n)
    ELSE prefix \o number

PhoneStrings ==
    {Decorate(prefix, <<first>> \o body, style) :
        prefix \in PhonePrefixes, first \in {"7", "1"}, body \in PhoneBodies,
        style \in PhoneStyles}

PhoneInputs == {Absent, Some(<<>>)} \cup {Some(str) : str \in PhoneStrings}

PInit ==
    /\ results = <<>>
    /\ loading = FALSE
    /\ error = NoError
    /\ rawResultsCount = 0
    /\ apiLoaded = FALSE
    /\ inv = [s \in Slots |-> IdleSlot]
    /\ qin = <<>>
    /\ qout = <<>>
    /\ qdone = FALSE
    /\ scoreArgs = [ratingCount |-> Absent, rating |-> Absent]
    /\ scoreRet = ""
    /\ phoneArg \in PhoneInputs
    /\ phoneRet = {}

\* isValidSriLankanMobile(phoneArg) and formatPhoneForWhatsApp(phoneArg)
Normalize ==
    /\ phoneRet = {}
    /\ phoneRet' = {[valid |-> isValidSriLankanMobile(phoneArg),
                     formatted |-> formatPhoneForWhatsApp(phoneArg)]}
    /\ UNCHANGED <<phoneArg, hookVars, leadVars, scoreVars>>

PNext == Normalize

PSpec == PInit /\ [][PNext]_vars

DigitsOf(str) == SelectSeq(str, LAMBDA c : c \in Digit)

\* the eight digits behind the 7 of an accepted number
Subscriber(str) == SubSeq(DigitsOf(str), Len(DigitsOf(str)) - 7, Len(DigitsOf(str)))

\* C14: for every phone string isValidSriLankanMobile accepts (07XXXXXXXX,
\* +947XXXXXXXX or 947XXXXXXXX with spaces, hyphens and parentheses among the
\* digits), formatPhoneForWhatsApp returns exactly eleven digits that begin
\* with 94 and then 7, and every accepted string of the same subscriber, local
\* or international, is formatted to the same eleven digits.
C14_AcceptedPhonesCanonical ==
    \A ret \in phoneRet :
        ret.valid =>
            /\ Len(ret.formatted) = 11
            /\ AllDigits(ret.formatted, 1, 11)
            /\ SubSeq(ret.formatted, 1, 3) = <<"9", "4", "7">>
            /\ \A other \in PhoneInputs :
                   (/\ isValidSriLankanMobile(other)
                    /\ Subscriber(Val(other)) = Subscriber(Val(phoneArg)))
                   => formatPhoneForWhatsApp(other) = ret.formatted

\* an accepted local number written with hyphens, of which the international
\* form with + is accepted too
C14_Witness ==
    /\ phoneArg = Some(<<"0", "7", "1", "-", "2", "3", "4", "-", "5", "6", "7", "8">>)
    /\ phoneRet = {[valid |-> TRUE,
                    formatted |-> <<"9", "4", "7", "1", "2", "3", "4", "5", "6", "7", "8">>]}
    /\ isValidSriLankanMobile(Some(<<"+", "9", "4", " ", "7", "1", " ", "2", "3", "4", " ", "5", "6", "7", "8">>))

(***************************************************************************)
(* One invocation after another.                                           *)
(***************************************************************************)
\* what the hook shows once the invocation of a slot has completed, were it
\* the first invocation of a hook just constructed:
\* <<results, error, rawResultsCount, loading>>
OutcomeAlone(slot) ==
    IF ErrorStatus(slot.lastStatus)
    THEN <<(<<>>), PlacesApiError(slot.lastStatus), 0, FALSE>>
    ELSE LET leads == filterSuitableLeads(slot.validResults)
         IN  <<leads,
               IF leads = <<>> /\ slot.validResults # <<>>
               THEN NoneMatchError(Len(slot.validResults)) ELSE NoError,
               Len(slot.validResults),
               FALSE>>

\* C15: no state is carried from one invocation to the next: when a search
\* that was started after the one before it had completed completes, results,
\* error, rawResultsCount and loading are what the same query and the same
\* answers of the service give on a hook that has not searched before,
\* also when the search fails with an error status of the service or because
\* the maps API is not loaded.
C15_OutcomeIndependentOfPast ==
    [][/\ \A s \in Slots :
              (InFlight(s) /\ inv'[s].pc = "done")
              => <<results', error', rawResultsCount', loading'>> = OutcomeAlone(inv'[s])
       /\ error' = ApiNotLoadedError
              => <<results', rawResultsCount', loading'>> = <<(<<>>), 0, FALSE>>]_vars

(***************************************************************************)
(* Overlapping invocations: searchPlaces is called while a search is in    *)
(* flight (the hook does not prevent it).                                  *)
(***************************************************************************)
\* PageAnswer of a service that holds at most MaxShortResults results for a query
ShortPageAnswer(s) ==
    \/ \E pagination \in Paginations :
       \E pageResults \in SeqUpTo(PlaceIds, MaxShortResults - Len(inv[s].allResults)) \ {<<>>} :
           /\ HasNextPage(pagination) => PagesAnswered(s) + 1 < MaxPages
           /\ handleResults(s, pageResults, "OK", pagination)
    \/ \E status \in PageStatus \ {"OK"} :
           handleResults(s, <<>>, status, Absent)

ONext ==
    \/ \E query \in Queries : searchPlaces(query)
    \/ \E s \in Slots : ShortPageAnswer(s)
    \/ \E s \in Slots : nextPage(s)
    \/ \E s \in Slots : DetailAnswer(s)
    \/ clearResults
    \/ ApiLoads

OSpec == Init /\ [][ONext]_vars

\* C16: when a search is started while another is in flight, loading is true
\* as long as either of the two is in flight, and once both have completed,
\* results, error and rawResultsCount are those of the search that was started
\* later, in whatever order the answers of the service arrived.
C16_LatestSearchWins ==
    [][\A s, t \in Slots :
          (s # t /\ t \in inv'[s].startedDuring)
          => /\ (inv'[s].pc # "done" \/ inv'[t].pc # "done") => loading'
             /\ (/\ inv'[s].pc = "done" /\ inv'[t].pc = "done"
                 /\ (InFlight(s) \/ InFlight(t)))
                => /\ results' = OutcomeAlone(inv'[s])[1]
                   /\ error' = OutcomeAlone(inv'[s])[2]
                   /\ ~ErrorStatus(inv'[s].lastStatus)
                          => rawResultsCount' = OutcomeAlone(inv'[s])[3]]_vars

(***************************************************************************)
(* Termination: the service answers every request it was sent and the      *)
(* timer of every page delay fires.                                        *)
(***************************************************************************)
\* one search at a time, of at most MaxShortResults results
LNext ==
    \/ \E query \in Queries : Idle /\ searchPlaces(query)
    \/ \E s \in Slots : ShortPageAnswer(s)
    \/ \E s \in Slots : nextPage(s)
    \/ \E s \in Slots : DetailAnswer(s)
    \/ clearResults
    \/ ApiLoads

\* a detail request of slot s is waiting for its answer: the states in which
\* DetailAnswer(s) is enabled
DetailOutstanding(s) ==
    /\ inv[s].pc = "details"
    /\ \E k \in 1..Len(inv[s].detailed) : ~inv[s].answered[k].done

\* weak fairness of the service's page answers, of the timer and of the
\* service's detail answers; the last is WF_vars(DetailAnswer(s)) with
\* ENABLED <<DetailAnswer(s)>>_vars written out as DetailOutstanding(s)
FairSpec ==
    /\ Init /\ [][LNext]_vars
    /\ \A s \in Slots : WF_vars(ShortPageAnswer(s))
    /\ \A s \in Slots : WF_vars(nextPage(s))
    /\ \A s \in Slots : []<>(~DetailOutstanding(s)) \/ []<><<DetailAnswer(s)>>_vars

\* C17: a search with a query that is not blank completes, whatever its
\* outcome, and loading is false then, provided the service answers every page
\* and detail request and reports finitely many further pages; loading is true
\* from the start of the search until it completes; the promise of
\* fetchAllPages is settled exactly once, when pagination ends.
C17_SearchTerminates ==
    /\ [](\A s \in Slots :
              /\ InFlight(s) => loading
              /\ inv[s].settles = (IF inv[s].pc \in {"details", "done"} THEN 1 ELSE 0))
    /\ \A s \in Slots : InFlight(s) ~> (inv[s].pc = "done" /\ ~loading)

\* a search that has completed after a page of one result, the delay, a
\* second page without results and the answer to its one detail request
C17_Witness ==
    \E s \in Slots :
        /\ inv[s].pc = "done"
        /\ ~loading
        /\ Len(inv[s].pages) = 1
        /\ inv[s].lastStatus = "ZERO_RESULTS"
        /\ inv[s].delays = 1
        /\ inv[s].settles = 1
        /\ inv[s].answered[1].done

====
